---- MODULE Spec2Model ----
(***************************************************************************)
(* Model of the Peripage printer server (PrinceM13/demo-peri-page-v6).     *)
(*                                                                         *)
(* The BLE adapter (BLEPrinter: Connect, performHandshake, PrintText,      *)
(* textToBitmap, sendBitmap, Disconnect) is modelled as a state machine:   *)
(* one owner thread (main) that calls Connect and Disconnect one after     *)
(* the other, and concurrent request threads that call PrintText.  The     *)
(* Bluetooth library (adapter.Scan, adapter.Connect, device.Disconnect)    *)
(* and the radio environment are nondeterministic.                         *)
(***************************************************************************)
EXTENDS Integers, Sequences, FiniteSets, TLC

\* ------------------------------------------------------------------ bounds

\* Number of concurrent request threads calling PrintText.
NumCallers == 2

\* Link-layer connections the adapter opens in one run (caps the connection ids).
MaxConns == 2

\* Longest text handed to PrintText.
MaxTextLen == 1

\* Longest small bitmap handed directly to sendBitmap.
MaxBitmapLen == 4

\* The connect retry count a session is configured with (the code has no
\* such option: BLEPrinterConfig holds DeviceName, ScanTimeout, Logger only).
ConnectRetries == 2

\* The per-frame retry count a transport is configured with (no such option
\* in the code either).
FrameRetries == 2

\* Highest index of the frame whose acknowledgment the simulated transport
\* lets time out (0: every acknowledgment arrives).
MaxAckFrame == 4

\* Texts handed to the printer behind the Printer port in one run.
MaxJobs == 2

\* MockPrinter.PrintText calls made in one run.
MaxMockCalls == 2

\* POST /print requests the server serves in one run of main.
MaxRequests == 1

\* ------------------------------------------------------- program constants

\* "The Peripage has a maximum packet size (typically 512 bytes)".
MaxPacketSize == 512

\* "384px width for A6".
PrintWidthPx == 384

\* --------------------------------------------------------------- constants

Callers == 1 .. NumCallers

\* b.device == nil
Nil == 0

ConnIds == 1 .. MaxConns

\* b.deviceName
deviceName == "Peripage"

\* Devices in radio range: address -> advertised local name.  Two printers
\* share the configured name, one device does not.
Addresses == {"A1", "A2", "B1"}

LocalName(addr) == IF addr = "B1" THEN "Other" ELSE "Peripage"

\* The signal strength (dBm) each device is received with: A2 is nearer.
RSSI(addr) == CASE addr = "A1" -> 0 - 70 [] addr = "A2" -> 0 - 40 [] OTHER -> 0 - 55

\* The zero bluetooth.ScanResult (var foundDevice bluetooth.ScanResult).
ZeroResult == "zero"

\* Status bytes a connected device may answer during the handshake.
HandshakeResponses == {<<0>>, <<255>>}

Chars == {"a"}

\* Texts of length 0 .. MaxTextLen.
Texts == UNION {[1 .. n -> Chars] : n \in 0 .. MaxTextLen}

\* Bitmaps handed to sendBitmap: every byte string over {0, 255} of length
\* 0 .. MaxBitmapLen, and one 2000-byte image.
Bitmaps ==
    UNION {[1 .. n -> {0, 255}] : n \in 0 .. MaxBitmapLen}
        \cup {[i \in 1 .. 2000 |-> 0]}

\* Go error values, named by the message fmt.Errorf builds.
NoErr == "nil"
ErrStartScan == "failed to start scan"
ErrNotFound == "device not found within timeout"
ErrConnectFailed == "failed to connect to device"
ErrHandshake == "handshake failed"
ErrNotConnected == "not connected to printer"
ErrConvert == "failed to convert text to bitmap"
ErrSend == "failed to send bitmap"
ErrRenderNotImpl == "bitmap rendering not yet implemented"
ErrSendNotImpl == "bitmap sending not yet implemented"
ErrDisconnect == "failed to disconnect"

VARIABLES
    device,        \* b.device: Nil or the id of the connection it points to
    liveConns,     \* link-layer connections that are up (adapter / radio state)
    nextConn,      \* id the adapter gives the next connection
    cPc,           \* owner thread: position inside Connect
    cErr,          \* owner thread: what the last Connect / Disconnect returned
    found,         \* Connect local: found
    foundDevice,   \* Connect local: foundDevice (address, or ZeroResult)
    seen,          \* addresses of the matching results this call's scan reported
    deviceCh,      \* Connect local: deviceCh, a channel of capacity 1
    stopReq,       \* adapter.StopScan() was called during this scan
    scanCtxDone,   \* scanCtx.Done() is closed (scan timeout or parent context)
    dialAttempts,  \* adapter.Connect calls made by the current Connect call
    hsResp,        \* what the device answered during the last Connect's handshake
    faulted,       \* the link dropped or a send failed since the last Connect call
    ptPc,          \* request thread: position inside PrintText
    ptText,        \* request thread: the text argument
    ptErr,         \* request thread: what PrintText returned
    ptOverlap,     \* request thread: another PrintText was in flight at the call
    ptRendered,    \* request thread: this call ran textToBitmap
    ptSteps,       \* request thread: what the steps of this call returned
    uPc,           \* direct calls of textToBitmap / sendBitmap: position
    uIn,           \* direct calls: the argument and the transport's behaviour
    uOut,          \* direct calls: the result
    prErr,         \* Printer port: the error its PrintText returns (nil: none)
    prLog,         \* Printer port: the texts its PrintText was called with
    rq,            \* PrintService / Handler: the last call and its result
    mkPc,          \* MockPrinter.PrintText: position of each calling thread
    mkText,        \* MockPrinter.PrintText: the text argument
    mkRet,         \* MockPrinter.PrintText: what the last call returned
    mkOut,         \* the lines written to the logger and to stdout, in order
    mkCalls,       \* MockPrinter.PrintText calls begun
    cfgCall,       \* config: the last Load / Validate call and its result
    mPc,           \* main: position of the main goroutine
    mCfg,          \* main: cfg, the configuration Load returned
    mSrv,          \* main: the goroutine that runs router.Run
    mTrace,        \* main: what the process did so far, in order
    mServed        \* main: POST /print requests served

bleVars ==
    <<device, liveConns, nextConn, cPc, cErr, found, foundDevice, seen, deviceCh,
      stopReq, scanCtxDone, dialAttempts, hsResp, faulted>>

ptVars == <<ptPc, ptText, ptErr, ptOverlap, ptRendered, ptSteps>>

unitVars == <<uPc, uIn, uOut>>

apiVars == <<prErr, prLog, rq>>

mockVars == <<mkPc, mkText, mkRet, mkOut, mkCalls>>

cfgVars == <<cfgCall>>

mainVars == <<mPc, mCfg, mSrv, mTrace, mServed>>

\* The server around the adapter: service and handler, mock printer, config,
\* main.
glueVars == <<apiVars, mockVars, cfgVars, mainVars>>

vars == <<bleVars, ptVars, unitVars, glueVars>>

\* ------------------------------------------------------- the pure functions

\* performHandshake(): logs twice and returns nil.
performHandshake == NoErr

\* textToBitmap(text): return []byte{}, fmt.Errorf("bitmap rendering not yet
\* implemented"), whatever the text.
textToBitmap(text) == [bitmap |-> <<>>, writes |-> <<>>, err |-> ErrRenderNotImpl]

\* sendBitmap(bitmap): logs the length, writes nothing to the device and
\* returns fmt.Errorf("bitmap sending not yet implemented").  writes is the
\* sequence of frames written to the BLE characteristic.
sendBitmap(bitmap) == [bitmap |-> bitmap, writes |-> <<>>, err |-> ErrSendNotImpl]

\* The step was not run (sendBitmap after a failed conversion).
NotRun == "not run"

\* No step of PrintText has run.
NoSteps == [conv |-> NotRun, send |-> NotRun, cause |-> NoErr]

\* A callback that takes every advertisement for the printer.
MatchesAny(name) == TRUE

\* if result.LocalName() == b.deviceName
Matches(name) == name = deviceName

\* A Connect that stores the device before it looks at the error.
DialResultStoreFirst(ok, dev, conn) ==
    [device |-> conn, err |-> IF ok THEN NoErr ELSE ErrConnectFailed]

\* device, err := b.adapter.Connect(...); on an error Connect returns it, else
\* b.device = &device.  dev is b.device before, conn the new connection.
DialResult(ok, dev, conn) ==
    IF ok THEN [device |-> conn, err |-> NoErr]
    ELSE [device |-> dev, err |-> ErrConnectFailed]

\* A Disconnect that forgets the device even when the link did not close.
DisconnectResultForget(ok, dev) ==
    [device |-> Nil, err |-> IF ok THEN NoErr ELSE ErrDisconnect]

\* if err := b.device.Disconnect(); err != nil { return the error };
\* b.device = nil; return nil
DisconnectResult(ok, dev) ==
    IF ok THEN [device |-> Nil, err |-> NoErr]
    ELSE [device |-> dev, err |-> ErrDisconnect]

\* PrintText without its connection check.
NotConnectedUnchecked(dev) == FALSE

\* if b.device == nil { return fmt.Errorf("not connected to printer") }
NotConnected(dev) == dev = Nil

\* A PrintText that goes on to sendBitmap whatever textToBitmap returned.
PrintTextBodySendAnyway(text) ==
    LET r == textToBitmap(text)
        s == sendBitmap(r.bitmap)
    IN  IF s.err # NoErr
        THEN [err |-> ErrSend, cause |-> s.err, conv |-> r.err, send |-> s.err,
              sent |-> TRUE, writes |-> s.writes]
        ELSE [err |-> NoErr, cause |-> NoErr, conv |-> r.err, send |-> NoErr,
              sent |-> TRUE, writes |-> s.writes]

\* The body of PrintText after the connection check: textToBitmap, then
\* sendBitmap unless the conversion failed.  err is the message PrintText
\* returns and cause the error it wraps (%w); conv and send are what the two
\* steps returned; sent: sendBitmap was called.
PrintTextBody(text) ==
    LET r == textToBitmap(text)
    IN  IF r.err # NoErr
        THEN [err |-> ErrConvert, cause |-> r.err, conv |-> r.err,
              send |-> NotRun, sent |-> FALSE, writes |-> <<>>]
        ELSE LET s == sendBitmap(r.bitmap)
             IN  IF s.err # NoErr
                 THEN [err |-> ErrSend, cause |-> s.err, conv |-> NoErr,
                       send |-> s.err, sent |-> TRUE, writes |-> s.writes]
                 ELSE [err |-> NoErr, cause |-> NoErr, conv |-> NoErr,
                       send |-> NoErr, sent |-> TRUE, writes |-> s.writes]

\* The session state the design names, read off the adapter's fields: the
\* struct holds no state or error field, only the device pointer.
SessionState ==
    IF cPc \in {"scan", "cbBlocked", "select"} THEN "Scanning"
    ELSE IF cPc = "dial" THEN "Connecting"
    ELSE IF cPc = "handshake" THEN "Handshaking"
    ELSE IF device = Nil THEN "Disconnected"
    ELSE IF \E c \in Callers : ptPc[c] = "render" THEN "Printing"
    ELSE "Ready"

\* ------------------------------------------ PrintService and Handler values

\* Texts a caller hands to PrintService.PrintText or puts in a request.
ApiTexts == {"", "hi"}

\* Errors the printer behind the Printer port returns.
PrinterErrors == {"printer offline"}

\* Go values handed to PrintJSON, tagged by their kind.  JNil is the nil
\* interface (and the nil map of a request without "data"); JChan is a value
\* encoding/json cannot encode.
JNil == [t |-> "nil"]

JChan == [t |-> "chan"]

JNum(n) == [t |-> "num", n |-> n]

JStr(s) == [t |-> "str", s |-> s]

JMap(m) == [t |-> "map", m |-> m]

\* The keys used in maps, in the byte order encoding/json sorts them into.
KeyOrder == <<"a", "b">>

EmptyMap == JMap([k \in {} |-> JNil])

InnerMap == JMap([k \in {"a", "b"} |-> IF k = "a" THEN JStr("x") ELSE JNum(7)])

\* map[string]interface{} values a request's "data" decodes to.
DataMaps ==
    { EmptyMap,
      JMap([k \in {"a"} |-> JNum(7)]),
      InnerMap,
      JMap([k \in {"a"} |-> EmptyMap]),
      JMap([k \in {"b"} |-> JMap([k2 \in {"b"} |-> JNum(7)])]),
      JMap([k \in {"a", "b"} |-> IF k = "a" THEN InnerMap ELSE JNum(7)]) }

\* Arguments of PrintJSON(data interface{}).
JsonData == {JNil, JChan, JNum(7), JStr("x")} \cup DataMaps

\* Request bodies of POST /print: what ShouldBindJSON makes of them.  bind is
\* the binding error (nil when the body is a JSON object), text and data the
\* fields of the PrintRequest it fills.
BadBodies ==
    { [bind |-> e, text |-> "", data |-> JNil] :
          e \in {"EOF", "invalid character 'x' looking for beginning of value"} }

GoodBodies == [bind : {NoErr}, text : ApiTexts, data : {JNil} \cup DataMaps]

Bodies == BadBodies \cup GoodBodies

\* http.StatusOK, http.StatusBadRequest, http.StatusInternalServerError.
StatusOK == 200

StatusBadRequest == 400

StatusInternalServerError == 500

ErrEmptyText == "text cannot be empty"

ErrNilData == "data cannot be nil"

ErrMarshal == "failed to marshal JSON: json: unsupported type: chan int"

\* No PrintService or Handler call was made yet.
NoCall ==
    [op |-> "none", text |-> "", data |-> JNil, bind |-> NoErr, before |-> 0,
     prRet |-> NoErr, err |-> NoErr, code |-> 0, success |-> FALSE, msg |-> ""]

\* ---------------------------------------------------- json.MarshalIndent

Quote(s) == "\"" \o s \o "\""

\* The keys of a map in sorted order.
SortedKeys(m) == SelectSeq(KeyOrder, LAMBDA k : k \in DOMAIN m)

\* json.Marshal: the compact encoding, as the sequence of its tokens.  Map
\* keys come out sorted.
RECURSIVE Compact(_), Members(_, _)
Compact(v) ==
    CASE v.t = "num" -> <<ToString(v.n)>>
      [] v.t = "str" -> <<Quote(v.s)>>
      [] v.t = "map" -> <<"{">> \o Members(v.m, SortedKeys(v.m)) \o <<"}">>

Members(m, ks) ==
    IF ks = <<>> THEN <<>>
    ELSE <<Quote(Head(ks)), ":">> \o Compact(m[Head(ks)])
             \o (IF Len(ks) > 1 THEN <<",">> ELSE <<>>)
             \o Members(m, Tail(ks))

\* The indent argument of json.MarshalIndent(data, "", "  ").
IndentUnit == "  "

\* json.Indent's newline(): a line break, then depth times the indent.
RECURSIVE NewLine(_)
NewLine(depth) == IF depth = 0 THEN "\n" ELSE NewLine(depth - 1) \o IndentUnit

\* json.Indent: one pass over the compact encoding.  needIndent says that
\* the last token opened an object which has no member so far.
RECURSIVE Indent(_, _, _)
Indent(toks, depth, needIndent) ==
    IF toks = <<>> THEN ""
    ELSE LET c == Head(toks)
             opening == needIndent /\ c # "}"
             d == IF opening THEN depth + 1 ELSE depth
             lead == IF opening THEN NewLine(d) ELSE ""
         IN  lead \o
             ( CASE c = "{" -> c \o Indent(Tail(toks), d, TRUE)
                 [] c = "," -> c \o NewLine(d) \o Indent(Tail(toks), d, FALSE)
                 [] c = ":" -> c \o " " \o Indent(Tail(toks), d, FALSE)
                 [] c = "}" ->
                      IF needIndent
                      THEN c \o Indent(Tail(toks), d, FALSE)
                      ELSE NewLine(d - 1) \o c \o Indent(Tail(toks), d - 1, FALSE)
                 [] OTHER -> c \o Indent(Tail(toks), d, FALSE) )

\* json.Marshal fails on a value it has no encoding for.
Unsupported(v) == v.t = "chan"

\* The compact encoding as one string: json.Marshal, no indentation.
RECURSIVE Join(_)
Join(toks) == IF toks = <<>> THEN "" ELSE Head(toks) \o Join(Tail(toks))

MarshalCompact(v) == Join(Compact(v))

\* json.MarshalIndent(v, "", "  ")
MarshalIndent(v) == Indent(Compact(v), 0, FALSE)

\* ---------------------------------------------- PrintService and Handler

\* printer.PrintText(text) behind the port: it gets the text and returns the
\* error the printer is in (pErr).
PortPrintText(text, pErr) == [err |-> pErr, sent |-> <<text>>]

\* PrintService.PrintText without its check of the text, and with the
\* printer's error dropped.
ServicePrintTextUnchecked(text, pErr) == PortPrintText(text, pErr)

ServicePrintTextSwallow(text, pErr) ==
    IF text = "" THEN [err |-> ErrEmptyText, sent |-> <<>>]
    ELSE [err |-> NoErr, sent |-> <<text>>]

\* PrintService.PrintText: err is what it returns, sent the texts it handed
\* to the printer.
ServicePrintText(text, pErr) ==
    IF text = "" THEN [err |-> ErrEmptyText, sent |-> <<>>]
    ELSE PortPrintText(text, pErr)

\* PrintService.PrintJSON.
ServicePrintJSON(data, pErr) ==
    IF data = JNil THEN [err |-> ErrNilData, sent |-> <<>>]
    ELSE IF Unsupported(data) THEN [err |-> ErrMarshal, sent |-> <<>>]
    ELSE PortPrintText(MarshalIndent(data), pErr)

\* c.JSON(http.StatusBadRequest, ErrorResponse{Error: msg}); return
BadRequest(msg) ==
    [code |-> StatusBadRequest, success |-> FALSE, msg |-> msg, err |-> NoErr,
     sent |-> <<>>]

\* A handler that answers 200 whatever the service returned.
RespondAlwaysOK(r) ==
    [code |-> StatusOK, success |-> TRUE,
     msg |-> "Print job completed successfully", err |-> NoErr, sent |-> r.sent]

\* The response to a request the service was called for; r is the call.
Respond(r) ==
    IF r.err # NoErr
    THEN [code |-> StatusInternalServerError, success |-> FALSE,
          msg |-> "Print failed: " \o r.err, err |-> r.err, sent |-> r.sent]
    ELSE [code |-> StatusOK, success |-> TRUE,
          msg |-> "Print job completed successfully", err |-> NoErr,
          sent |-> r.sent]

\* req.Data != nil alone, without the length.
HasDataNotNil(body) == body.data # JNil

\* req.Data != nil && len(req.Data) > 0
HasData(body) == body.data # JNil /\ Cardinality(DOMAIN body.data.m) > 0

\* A handler that looks at text before data.
HandlerPrintTextFirst(body, pErr) ==
    IF body.bind # NoErr THEN BadRequest("Invalid request body: " \o body.bind)
    ELSE IF body.text # "" THEN Respond(ServicePrintText(body.text, pErr))
    ELSE IF HasData(body) THEN Respond(ServicePrintJSON(body.data, pErr))
    ELSE BadRequest("Either 'text' or 'data' must be provided")

\* Handler.Print: the status code and the body of the response, what the
\* service returned, and the texts handed to the printer.
HandlerPrint(body, pErr) ==
    IF body.bind # NoErr THEN BadRequest("Invalid request body: " \o body.bind)
    ELSE IF HasData(body) THEN Respond(ServicePrintJSON(body.data, pErr))
    ELSE IF body.text # "" THEN Respond(ServicePrintText(body.text, pErr))
    ELSE BadRequest("Either 'text' or 'data' must be provided")

\* A health check that reports the printer's state.
HandlerHealthCheckProbing ==
    IF prErr = NoErr
    THEN [code |-> StatusOK, success |-> FALSE, msg |-> "healthy",
          err |-> NoErr, sent |-> <<>>]
    ELSE [code |-> StatusInternalServerError, success |-> FALSE,
          msg |-> "unhealthy", err |-> prErr, sent |-> <<>>]

\* Handler.HealthCheck: c.JSON(http.StatusOK, gin.H{"status": "healthy"}).
HandlerHealthCheck ==
    [code |-> StatusOK, success |-> FALSE, msg |-> "healthy", err |-> NoErr,
     sent |-> <<>>]

\* ------------------------------------------------------------------- Init

\* NewBLEPrinter: adapter enabled, device nil; no call in progress.
\* NewPrintService, NewHandler, NewMockPrinter: nothing printed, no request.
Init ==
    /\ device = Nil
    /\ liveConns = {}
    /\ nextConn = 1
    /\ cPc = "idle"
    /\ cErr = NoErr
    /\ found = FALSE
    /\ foundDevice = ZeroResult
    /\ seen = {}
    /\ deviceCh = <<>>
    /\ stopReq = FALSE
    /\ scanCtxDone = FALSE
    /\ dialAttempts = 0
    /\ hsResp = <<>>
    /\ faulted = FALSE
    /\ ptPc = [c \in Callers |-> "idle"]
    /\ ptText = [c \in Callers |-> <<>>]
    /\ ptErr = [c \in Callers |-> NoErr]
    /\ ptOverlap = [c \in Callers |-> FALSE]
    /\ ptRendered = [c \in Callers |-> FALSE]
    /\ ptSteps = [c \in Callers |-> NoSteps]
    /\ uPc = "idle"
    /\ uIn = [op |-> "none", arg |-> <<>>, ackFail |-> 0]
    /\ uOut = [bitmap |-> <<>>, writes |-> <<>>, err |-> NoErr]
    /\ prErr = NoErr
    /\ prLog = <<>>
    /\ rq = NoCall
    /\ mkPc = [c \in Callers |-> "idle"]
    /\ mkText = [c \in Callers |-> ""]
    /\ mkRet = [c \in Callers |-> NoErr]
    /\ mkOut = <<>>
    /\ mkCalls = 0
    /\ cfgCall = [op |-> "none"]
    /\ mPc = "start"
    /\ mCfg = [nil |-> TRUE]
    /\ mSrv = "none"
    /\ mTrace = <<>>
    /\ mServed = 0

\* ---------------------------------------------------------------- Connect

\* Connect returns: its locals (found, foundDevice, deviceCh) and the scan
\* context go out of scope.
LocalsGone ==
    /\ found' = FALSE
    /\ foundDevice' = ZeroResult
    /\ seen' = {}
    /\ deviceCh' = <<>>
    /\ stopReq' = FALSE
    /\ scanCtxDone' = FALSE

\* Connect, up to the call of adapter.Scan: the locals are created, the scan
\* context is armed, and Scan either fails to start (Connect returns) or
\* starts and blocks until StopScan is called.
ConnectCall ==
    /\ cPc = "idle"
    /\ nextConn <= MaxConns
    /\ found' = FALSE
    /\ foundDevice' = ZeroResult
    /\ seen' = {}
    /\ deviceCh' = <<>>
    /\ stopReq' = FALSE
    /\ scanCtxDone' = FALSE
    /\ dialAttempts' = 0
    /\ hsResp' = <<>>
    /\ \E started \in BOOLEAN :
          IF started
          THEN cPc' = "scan" /\ cErr' = NoErr
          ELSE cPc' = "idle" /\ cErr' = ErrStartScan
    /\ UNCHANGED <<device, liveConns, nextConn, faulted, ptVars, unitVars, glueVars>>

\* The scan callback, run by the scanning loop for one advertisement.  A
\* name other than the configured one is only logged.  A matching result is
\* stored in foundDevice, found is set, the result is sent on deviceCh and
\* StopScan is called; when deviceCh is full the send blocks the callback.
ScanCallback(addr) ==
    /\ cPc = "scan"
    /\ seen' = IF LocalName(addr) = deviceName THEN seen \cup {addr} ELSE seen
    /\ IF Matches(LocalName(addr))
       THEN /\ foundDevice' = addr
            /\ found' = TRUE
            /\ IF Len(deviceCh) < 1
               THEN /\ deviceCh' = Append(deviceCh, addr)
                    /\ stopReq' = TRUE
                    /\ cPc' = cPc
               ELSE /\ cPc' = "cbBlocked"
                    /\ UNCHANGED <<deviceCh, stopReq>>
       ELSE UNCHANGED <<foundDevice, found, deviceCh, stopReq, cPc>>
    /\ UNCHANGED <<device, liveConns, nextConn, cErr, scanCtxDone, dialAttempts,
                   hsResp, faulted, ptVars, unitVars, glueVars>>

\* adapter.Scan returns nil once StopScan was called.
ScanReturn ==
    /\ cPc = "scan"
    /\ stopReq
    /\ cPc' = "select"
    /\ UNCHANGED <<device, liveConns, nextConn, cErr, found, foundDevice, seen, deviceCh,
                   stopReq, scanCtxDone, dialAttempts, hsResp, faulted, ptVars,
                   unitVars, glueVars>>

\* The scan timeout elapses (or the caller's context ends): scanCtx.Done()
\* becomes ready.
ScanTimeout ==
    /\ cPc \in {"scan", "cbBlocked", "select"}
    /\ ~scanCtxDone
    /\ scanCtxDone' = TRUE
    /\ UNCHANGED <<device, liveConns, nextConn, cPc, cErr, found, foundDevice, seen,
                   deviceCh, stopReq, dialAttempts, hsResp, faulted, ptVars,
                   unitVars, glueVars>>

\* The select after Scan: one of the ready cases runs.  On scanCtx.Done()
\* StopScan is called again and Connect returns "device not found" unless
\* found; on a receive from deviceCh Connect goes on to connect.
SelectStep ==
    /\ cPc = "select"
    /\ \E case \in {"done", "recv"} :
          /\ case = "done" => scanCtxDone
          /\ case = "recv" => Len(deviceCh) > 0
          /\ IF case = "done"
             THEN IF ~found
                  THEN cPc' = "idle" /\ cErr' = ErrNotFound /\ LocalsGone
                  ELSE /\ cPc' = "dial"
                       /\ UNCHANGED <<cErr, found, foundDevice, seen, deviceCh, stopReq,
                                      scanCtxDone>>
             ELSE /\ deviceCh' = Tail(deviceCh)
                  /\ cPc' = "dial"
                  /\ UNCHANGED <<cErr, found, foundDevice, seen, stopReq, scanCtxDone>>
    /\ UNCHANGED <<device, liveConns, nextConn, dialAttempts, hsResp, faulted,
                   ptVars, unitVars, glueVars>>

\* adapter.Connect(foundDevice.Address, ...): on failure Connect returns the
\* error at once; on success b.device = &device.
Dial ==
    /\ cPc = "dial"
    /\ dialAttempts' = dialAttempts + 1
    /\ \E ok \in BOOLEAN :
          IF ok
          THEN /\ device' = DialResult(ok, device, nextConn).device
               /\ liveConns' = liveConns \cup {nextConn}
               /\ nextConn' = nextConn + 1
               /\ faulted' = FALSE
               /\ cPc' = "handshake"
               /\ UNCHANGED <<cErr, found, foundDevice, seen, deviceCh, stopReq,
                              scanCtxDone>>
          ELSE /\ cPc' = "idle"
               /\ device' = DialResult(ok, device, nextConn).device
               /\ cErr' = DialResult(ok, device, nextConn).err
               /\ LocalsGone
               /\ UNCHANGED <<liveConns, nextConn, faulted>>
    /\ UNCHANGED <<hsResp, ptVars, unitVars, glueVars>>

\* performHandshake and the return of Connect.  Whatever the device answers
\* (resp) stays unread: performHandshake neither writes to nor reads from it.
Handshake ==
    /\ cPc = "handshake"
    /\ cPc' = "idle"
    /\ \E resp \in HandshakeResponses : hsResp' = resp
    /\ cErr' = IF performHandshake # NoErr THEN ErrHandshake ELSE NoErr
    /\ LocalsGone
    /\ UNCHANGED <<device, liveConns, nextConn, dialAttempts, faulted, ptVars,
                   unitVars, glueVars>>

\* ------------------------------------------------------------- Disconnect

\* Disconnect: nil at once without a device; else device.Disconnect(), whose
\* failure leaves b.device in place and whose success clears it.
Disconnect ==
    /\ cPc = "idle"
    /\ IF device = Nil
       THEN cErr' = NoErr /\ UNCHANGED <<device, liveConns>>
       ELSE \E ok \in BOOLEAN :
               /\ liveConns' = IF ok THEN liveConns \ {device} ELSE liveConns
               /\ device' = DisconnectResult(ok, device).device
               /\ cErr' = DisconnectResult(ok, device).err
    /\ hsResp' = <<>>
    /\ UNCHANGED <<nextConn, cPc, found, foundDevice, seen, deviceCh, stopReq,
                   scanCtxDone, dialAttempts, faulted, ptVars, unitVars, glueVars>>

\* The radio link of a connection drops.  The adapter registers no
\* disconnect handler, so no field of the printer changes.
LinkDrop(id) ==
    /\ id \in liveConns
    /\ liveConns' = liveConns \ {id}
    /\ faulted' = (faulted \/ id = device)
    /\ UNCHANGED <<device, nextConn, cPc, cErr, found, foundDevice, seen, deviceCh,
                   stopReq, scanCtxDone, dialAttempts, hsResp, ptVars, unitVars, glueVars>>

\* -------------------------------------------------------------- PrintText

\* PrintText is entered by request thread c: the connection check.
PrintTextCall(c, text) ==
    /\ ptPc[c] = "idle"
    /\ ptText' = [ptText EXCEPT ![c] = text]
    /\ ptOverlap' = [ptOverlap EXCEPT ![c] = \E d \in Callers \ {c} : ptPc[d] = "render"]
    /\ ptRendered' = [ptRendered EXCEPT ![c] = FALSE]
    /\ ptSteps' = [ptSteps EXCEPT ![c] = NoSteps]
    /\ IF NotConnected(device)
       THEN /\ ptPc' = [ptPc EXCEPT ![c] = "done"]
            /\ ptErr' = [ptErr EXCEPT ![c] = ErrNotConnected]
       ELSE /\ ptPc' = [ptPc EXCEPT ![c] = "render"]
            /\ ptErr' = [ptErr EXCEPT ![c] = NoErr]
    /\ UNCHANGED <<bleVars, unitVars, glueVars>>

\* The rest of PrintText: convert, send, return.
PrintTextRender(c) ==
    /\ ptPc[c] = "render"
    /\ LET r == PrintTextBody(ptText[c])
       IN  /\ ptErr' = [ptErr EXCEPT ![c] = r.err]
           /\ ptSteps' = [ptSteps EXCEPT ![c] =
                             [conv |-> r.conv, send |-> r.send, cause |-> r.cause]]
           /\ faulted' = (faulted \/ r.err = ErrSend)
    /\ ptRendered' = [ptRendered EXCEPT ![c] = TRUE]
    /\ ptPc' = [ptPc EXCEPT ![c] = "done"]
    /\ UNCHANGED <<device, liveConns, nextConn, cPc, cErr, found, foundDevice, seen,
                   deviceCh, stopReq, scanCtxDone, dialAttempts, hsResp, ptText,
                   ptOverlap, unitVars, glueVars>>

\* The caller has taken the result; the thread is free for the next request.
PrintTextReturn(c) ==
    /\ ptPc[c] = "done"
    /\ ptPc' = [ptPc EXCEPT ![c] = "idle"]
    /\ ptText' = [ptText EXCEPT ![c] = <<>>]
    /\ ptErr' = [ptErr EXCEPT ![c] = NoErr]
    /\ ptOverlap' = [ptOverlap EXCEPT ![c] = FALSE]
    /\ ptRendered' = [ptRendered EXCEPT ![c] = FALSE]
    /\ ptSteps' = [ptSteps EXCEPT ![c] = NoSteps]
    /\ UNCHANGED <<bleVars, unitVars, glueVars>>

\* ---------------------------------------------------------- specification

Next ==
    \/ ConnectCall
    \/ \E addr \in Addresses : ScanCallback(addr)
    \/ ScanReturn
    \/ ScanTimeout
    \/ SelectStep
    \/ Dial
    \/ Handshake
    \/ Disconnect
    \/ \E id \in ConnIds : LinkDrop(id)
    \/ \E c \in Callers, text \in Texts : PrintTextCall(c, text)
    \/ \E c \in Callers : PrintTextRender(c)
    \/ \E c \in Callers : PrintTextReturn(c)

Spec == Init /\ [][Next]_vars

\* The owner thread's own steps and the timer are scheduled; what the radio
\* delivers and whether anybody calls an operation is not.
FairSpec ==
    /\ Spec
    /\ WF_vars(ScanReturn)
    /\ WF_vars(ScanTimeout)
    /\ WF_vars(SelectStep)
    /\ WF_vars(Dial)
    /\ WF_vars(Handshake)

\* ------------------------------------ textToBitmap and sendBitmap, directly

\* textToBitmap(text) called on its own.
UnitTextToBitmap(text) ==
    /\ uPc = "idle"
    /\ uIn' = [op |-> "textToBitmap", arg |-> text, ackFail |-> 0]
    /\ uOut' = textToBitmap(text)
    /\ uPc' = "returned"
    /\ UNCHANGED <<bleVars, ptVars, glueVars>>

\* sendBitmap(bitmap) called on its own, over a transport that lets the
\* acknowledgment of frame k time out on every attempt (k = 0: never).
UnitSendBitmap(bitmap, k) ==
    /\ uPc = "idle"
    /\ uIn' = [op |-> "sendBitmap", arg |-> bitmap, ackFail |-> k]
    /\ uOut' = sendBitmap(bitmap)
    /\ uPc' = "returned"
    /\ UNCHANGED <<bleVars, ptVars, glueVars>>

UnitReturn ==
    /\ uPc = "returned"
    /\ uPc' = "idle"
    /\ uIn' = [op |-> "none", arg |-> <<>>, ackFail |-> 0]
    /\ uOut' = [bitmap |-> <<>>, writes |-> <<>>, err |-> NoErr]
    /\ UNCHANGED <<bleVars, ptVars, glueVars>>

UnitNext ==
    \/ \E text \in Texts : UnitTextToBitmap(text)
    \/ \E bitmap \in Bitmaps, k \in 0 .. MaxAckFrame : UnitSendBitmap(bitmap, k)
    \/ UnitReturn

UnitSpec == Init /\ [][UnitNext]_vars

\* -------------------------------------- PrintService and Handler, called

\* The record of a call: what was asked (op, text, data, bind), how many
\* texts the printer had got before it, what the printer was set to return,
\* and the result.
CallRecord(op, body, r) ==
    [op |-> op, text |-> body.text, data |-> body.data, bind |-> body.bind,
     before |-> Len(prLog), prRet |-> prErr, err |-> r.err, code |-> r.code,
     success |-> r.success, msg |-> r.msg]

\* The printer behind the port starts or stops failing.
PrinterSet(e) ==
    /\ e # prErr
    /\ prErr' = e
    /\ UNCHANGED <<prLog, rq, bleVars, ptVars, unitVars, mockVars, cfgVars, mainVars>>

\* service.PrintText(text), called directly.
SvcPrintText(text) ==
    /\ Len(prLog) < MaxJobs
    /\ LET r == ServicePrintText(text, prErr)
       IN  /\ prLog' = prLog \o r.sent
           /\ rq' = CallRecord("PrintText",
                               [text |-> text, data |-> JNil, bind |-> NoErr],
                               [err |-> r.err, code |-> 0, success |-> FALSE,
                                msg |-> ""])
    /\ UNCHANGED <<prErr, bleVars, ptVars, unitVars, mockVars, cfgVars, mainVars>>

\* service.PrintJSON(data), called directly.
SvcPrintJSON(data) ==
    /\ Len(prLog) < MaxJobs
    /\ LET r == ServicePrintJSON(data, prErr)
       IN  /\ prLog' = prLog \o r.sent
           /\ rq' = CallRecord("PrintJSON",
                               [text |-> "", data |-> data, bind |-> NoErr],
                               [err |-> r.err, code |-> 0, success |-> FALSE,
                                msg |-> ""])
    /\ UNCHANGED <<prErr, bleVars, ptVars, unitVars, mockVars, cfgVars, mainVars>>

\* POST /print with the given body.
PostPrint(body) ==
    /\ Len(prLog) < MaxJobs
    /\ LET r == HandlerPrint(body, prErr)
       IN  /\ prLog' = prLog \o r.sent
           /\ rq' = CallRecord("Print", body, r)
    /\ UNCHANGED <<prErr, bleVars, ptVars, unitVars, mockVars, cfgVars, mainVars>>

\* GET /health.
GetHealth ==
    /\ rq' = CallRecord("HealthCheck",
                        [text |-> "", data |-> JNil, bind |-> NoErr],
                        HandlerHealthCheck)
    /\ UNCHANGED <<prErr, prLog, bleVars, ptVars, unitVars, mockVars, cfgVars, mainVars>>

ApiNext ==
    \/ \E e \in {NoErr} \cup PrinterErrors : PrinterSet(e)
    \/ \E text \in ApiTexts : SvcPrintText(text)
    \/ \E data \in JsonData : SvcPrintJSON(data)
    \/ \E body \in Bodies : PostPrint(body)
    \/ GetHealth

ApiSpec == Init /\ [][ApiNext]_vars

\* ------------------------------------------------------------ MockPrinter

\* Texts handed to MockPrinter.PrintText.
MockTexts == {"", "hi"}

BeginMarker == "=== MOCK PRINTER OUTPUT ==="

EndMarker == "=== END MOCK PRINTER OUTPUT ==="

\* The lines of one call with the text written after the end marker.
MockLinesTextLast(text) ==
    << [stream |-> "log", line |-> BeginMarker],
       [stream |-> "log", line |-> EndMarker],
       [stream |-> "stdout", line |-> text] >>

\* The three statements of MockPrinter.PrintText before its return: the
\* stream each writes to (the logger, or stdout) and the line.
MockLines(text) ==
    << [stream |-> "log", line |-> BeginMarker],
       [stream |-> "stdout", line |-> text],
       [stream |-> "log", line |-> EndMarker] >>

\* return nil
MockResult(text) == NoErr

\* Thread c writes statement k of its call.
Emit(c, text, k) ==
    mkOut' = Append(mkOut, [who |-> c, stream |-> MockLines(text)[k].stream,
                            line |-> MockLines(text)[k].line])

\* Thread c calls PrintText(text): m.logger.Println(begin marker).
MockPrintTextCall(c, text) ==
    /\ mkPc[c] = "idle"
    /\ mkCalls < MaxMockCalls
    /\ mkCalls' = mkCalls + 1
    /\ mkText' = [mkText EXCEPT ![c] = text]
    /\ Emit(c, text, 1)
    /\ mkPc' = [mkPc EXCEPT ![c] = "text"]
    /\ UNCHANGED <<mkRet, bleVars, ptVars, unitVars, apiVars, cfgVars, mainVars>>

\* fmt.Println(text)
MockPrintln(c) ==
    /\ mkPc[c] = "text"
    /\ Emit(c, mkText[c], 2)
    /\ mkPc' = [mkPc EXCEPT ![c] = "end"]
    /\ UNCHANGED <<mkText, mkRet, mkCalls, bleVars, ptVars, unitVars, apiVars,
                   cfgVars, mainVars>>

\* m.logger.Println(end marker); return nil
MockPrintTextReturn(c) ==
    /\ mkPc[c] = "end"
    /\ Emit(c, mkText[c], 3)
    /\ mkRet' = [mkRet EXCEPT ![c] = MockResult(mkText[c])]
    /\ mkPc' = [mkPc EXCEPT ![c] = "idle"]
    /\ UNCHANGED <<mkText, mkCalls, bleVars, ptVars, unitVars, apiVars, cfgVars, mainVars>>

MockNext ==
    \/ \E c \in Callers, text \in MockTexts : MockPrintTextCall(c, text)
    \/ \E c \in Callers : MockPrintln(c)
    \/ \E c \in Callers : MockPrintTextReturn(c)

MockSpec == Init /\ [][MockNext]_vars

\* ----------------------------------------------------------------- config

\* An environment variable that is not set.
Unset == "<unset>"

\* The process environment: each variable Load reads is unset, or set to
\* one of a few values (the empty string among them).
Envs ==
    [ PORT : {Unset, "", "9090"},
      PRINTER_TYPE : {Unset, "", "mock", "ble", "usb"},
      PRINTER_DEVICE_NAME : {Unset, "", "P2"},
      PRINTER_TIMEOUT : {Unset, "5s", "soon"},
      BLE_SCAN_TIMEOUT : {Unset, "1s"} ]

\* os.Getenv(key): the value, or "" when the variable is not set.
Getenv(env, key) == IF env[key] = Unset THEN "" ELSE env[key]

\* A getEnv that keeps the value of every variable that is set.
getEnvIfSet(env, key, defaultValue) ==
    IF env[key] # Unset THEN env[key] ELSE defaultValue

\* getEnv(key, defaultValue)
getEnv(env, key, defaultValue) ==
    IF Getenv(env, key) # "" THEN Getenv(env, key) ELSE defaultValue

\* time.ParseDuration on the strings used here, in seconds; the strings
\* outside the table do not parse.
Seconds == [s \in {"30s", "10s", "5s", "1s"} |->
               CASE s = "30s" -> 30 [] s = "10s" -> 10 [] s = "5s" -> 5
                 [] s = "1s" -> 1]

\* parseDuration(s): 0 when time.ParseDuration fails.
parseDuration(s) == IF s \in DOMAIN Seconds THEN Seconds[s] ELSE 0

\* Validate without its check of the device name.
ValidateTypeOnly(c) ==
    IF c.Printer.Type # "mock" /\ c.Printer.Type # "ble"
    THEN "invalid printer type: " \o c.Printer.Type
             \o " (must be 'mock' or 'ble')"
    ELSE NoErr

\* Config.Validate: the error it returns.
Validate(c) ==
    IF c.Printer.Type # "mock" /\ c.Printer.Type # "ble"
    THEN "invalid printer type: " \o c.Printer.Type
             \o " (must be 'mock' or 'ble')"
    ELSE IF c.Printer.Type = "ble" /\ c.Printer.DeviceName = ""
    THEN "device name is required for BLE printer"
    ELSE NoErr

\* The nil *Config.
NilConfig == [nil |-> TRUE]

\* Load: the configuration and the error it returns.
Load(env) ==
    LET config ==
            [ Server |-> [Port |-> getEnv(env, "PORT", "8080")],
              Printer |->
                  [ Type |-> getEnv(env, "PRINTER_TYPE", "mock"),
                    DeviceName |-> getEnv(env, "PRINTER_DEVICE_NAME", "Peripage"),
                    Timeout |-> parseDuration(getEnv(env, "PRINTER_TIMEOUT", "30s")) ],
              BLE |->
                  [ ScanTimeout |->
                        parseDuration(getEnv(env, "BLE_SCAN_TIMEOUT", "10s")) ] ]
    IN  IF Validate(config) # NoErr
        THEN [config |-> NilConfig, err |-> Validate(config)]
        ELSE [config |-> config, err |-> NoErr]

\* Configurations Validate is called on directly.
Configs ==
    [ Server : [Port : {"8080"}],
      Printer : [Type : {"", "mock", "ble", "usb", "BLE"},
                 DeviceName : {"", "Peripage"},
                 Timeout : {30}],
      BLE : [ScanTimeout : {10}] ]

\* config.Load() in the environment env.
CfgLoad(env) ==
    /\ cfgCall' = [op |-> "Load", env |-> env, config |-> Load(env).config,
                   err |-> Load(env).err]
    /\ UNCHANGED <<bleVars, ptVars, unitVars, apiVars, mockVars, mainVars>>

\* c.Validate(), called directly.
CfgValidate(c) ==
    /\ cfgCall' = [op |-> "Validate", env |-> <<>>, config |-> c,
                   err |-> Validate(c)]
    /\ UNCHANGED <<bleVars, ptVars, unitVars, apiVars, mockVars, mainVars>>

CfgNext ==
    \/ \E env \in Envs : CfgLoad(env)
    \/ \E c \in Configs : CfgValidate(c)

CfgSpec == Init /\ [][CfgNext]_vars

\* ------------------------------------------------------------------- main

\* main is one process: the main goroutine, and the goroutine it starts for
\* router.Run.  What NewBLEPrinter, Connect, Disconnect and router.Run return
\* is an input here; mTrace records the calls and their outcomes.

\* The calls cleanup() makes in mock mode and in ble mode alike.
CleanupAlways(type) == <<"Disconnect">>

\* cleanup(): func() {} for the mock printer, blePrinter.Disconnect() (its
\* error is only logged) for the BLE printer.
Cleanup(type) == IF type = "ble" THEN <<"Disconnect">> ELSE <<>>

\* logger.Fatalf: the message is logged and os.Exit(1) ends the process at
\* once, whichever goroutine calls it.
Fatalf(what) ==
    /\ mPc' = "exited"
    /\ mTrace' = mTrace \o <<what, "Exit">>

\* cfg, err := config.Load()
MainLoad(env) ==
    /\ mPc = "start"
    /\ IF Load(env).err # NoErr
       THEN Fatalf("Load failed") /\ UNCHANGED mCfg
       ELSE /\ mCfg' = Load(env).config
            /\ mPc' = "switch"
            /\ mTrace' = Append(mTrace, "Load")
    /\ UNCHANGED <<mSrv, mServed, bleVars, ptVars, unitVars, apiVars, mockVars,
                   cfgVars>>

\* switch cfg.Printer.Type: NewMockPrinter, or NewBLEPrinter (which enables
\* the Bluetooth adapter and may fail).
MainNewPrinter ==
    /\ mPc = "switch"
    /\ IF mCfg.Printer.Type = "mock"
       THEN mPc' = "wired" /\ mTrace' = Append(mTrace, "NewMockPrinter")
       ELSE IF mCfg.Printer.Type = "ble"
       THEN \E ok \in BOOLEAN :
               IF ok
               THEN mPc' = "connect" /\ mTrace' = Append(mTrace, "NewBLEPrinter")
               ELSE Fatalf("NewBLEPrinter failed")
       ELSE Fatalf("Unknown printer type")
    /\ UNCHANGED <<mCfg, mSrv, mServed, bleVars, ptVars, unitVars, apiVars,
                   mockVars, cfgVars>>

\* blePrinter.Connect(ctx)
MainConnect ==
    /\ mPc = "connect"
    /\ \E ok \in BOOLEAN :
          IF ok
          THEN mPc' = "wired" /\ mTrace' = Append(mTrace, "Connect")
          ELSE Fatalf("Connect failed")
    /\ UNCHANGED <<mCfg, mSrv, mServed, bleVars, ptVars, unitVars, apiVars,
                   mockVars, cfgVars>>

\* NewPrintService, NewHandler, SetupRouter, go func() { router.Run },
\* signal.Notify: main then waits on quit.
MainStartServer ==
    /\ mPc = "wired"
    /\ mPc' = "waiting"
    /\ mSrv' = "starting"
    /\ mTrace' = Append(mTrace, "Go")
    /\ UNCHANGED <<mCfg, mServed, bleVars, ptVars, unitVars, apiVars, mockVars,
                   cfgVars>>

\* router.Run(serverAddr) in the goroutine: it listens, or returns an error
\* at once (the port is taken), and then logger.Fatalf ends the process.
ServerRun ==
    /\ mSrv = "starting"
    /\ mPc # "exited"
    /\ \E ok \in BOOLEAN :
          IF ok
          THEN mSrv' = "serving" /\ mTrace' = Append(mTrace, "Listen") /\ mPc' = mPc
          ELSE mSrv' = "failed" /\ Fatalf("Server failed")
    /\ UNCHANGED <<mCfg, mServed, bleVars, ptVars, unitVars, apiVars, mockVars,
                   cfgVars>>

\* The server serves a POST /print through the printer adapter.
ServerRequest ==
    /\ mSrv = "serving"
    /\ mPc # "exited"
    /\ mServed < MaxRequests
    /\ mServed' = mServed + 1
    /\ mTrace' = Append(mTrace, "Request")
    /\ UNCHANGED <<mPc, mCfg, mSrv, bleVars, ptVars, unitVars, apiVars, mockVars,
                   cfgVars>>

\* router.Run returns an error while serving: logger.Fatalf.
ServerFail ==
    /\ mSrv = "serving"
    /\ mPc # "exited"
    /\ mSrv' = "failed"
    /\ Fatalf("Server failed")
    /\ UNCHANGED <<mCfg, mServed, bleVars, ptVars, unitVars, apiVars, mockVars,
                   cfgVars>>

\* SIGINT or SIGTERM arrives: <-quit returns.
MainSignal ==
    /\ mPc = "waiting"
    /\ mPc' = "cleanup"
    /\ mTrace' = Append(mTrace, "Signal")
    /\ UNCHANGED <<mCfg, mSrv, mServed, bleVars, ptVars, unitVars, apiVars,
                   mockVars, cfgVars>>

\* cleanup(), "Server stopped", and main returns: the process exits.
MainCleanup ==
    /\ mPc = "cleanup"
    /\ mPc' = "exited"
    /\ mTrace' = mTrace \o Cleanup(mCfg.Printer.Type) \o <<"Exit">>
    /\ UNCHANGED <<mCfg, mSrv, mServed, bleVars, ptVars, unitVars, apiVars,
                   mockVars, cfgVars>>

MainNext ==
    \/ \E env \in Envs : MainLoad(env)
    \/ MainNewPrinter
    \/ MainConnect
    \/ MainStartServer
    \/ ServerRun
    \/ ServerRequest
    \/ ServerFail
    \/ MainSignal
    \/ MainCleanup

MainSpec == Init /\ [][MainNext]_vars

\* ----------------------------------------------------------------- claims

\* The design's SessionError.Busy and TransportError.RetryExhausted; the code
\* builds neither.
ErrBusy == "SessionError.Busy"

ErrRetryExhausted == "TransportError.RetryExhausted"

\* Errors of the Discover, Connect and Handshake stages and of the print.
StageErrors ==
    {ErrStartScan, ErrNotFound, ErrConnectFailed, ErrHandshake, ErrConvert, ErrSend}

\* ceil(n / MaxPacketSize)
NumFrames(n) == (n + MaxPacketSize - 1) \div MaxPacketSize

\* printWidthPx / 8
BytesPerRow == PrintWidthPx \div 8

\* The data frames among the writes of a send, in the order written.
DataFrames(writes) == SelectSeq(writes, LAMBDA f : f.kind = "data")

\* How often frame k was written.
AttemptsOf(writes, k) ==
    Cardinality({i \in 1 .. Len(writes) : writes[i].kind = "data" /\ writes[i].seq = k})

RECURSIVE Payloads(_)
\* The payloads of a sequence of frames, joined.
Payloads(frames) ==
    IF frames = <<>> THEN <<>> ELSE Head(frames).payload \o Payloads(Tail(frames))

\* C1: a PrintText call that arrives while another PrintText call on the
\* same printer has not returned fails at once with Busy and renders nothing.
C1_SecondCallBusy ==
    \A c \in Callers :
        (ptOverlap[c] /\ ptPc[c] # "idle") =>
            (ptPc[c] = "done" /\ ptErr[c] = ErrBusy /\ ~ptRendered[c])

\* C2: once the link has dropped or a send has failed, the session is not
\* Ready (nor Printing) until a Connect has succeeded again.
C2_ErrorUntilReconnect == faulted => SessionState \notin {"Ready", "Printing"}

C5_ScanEndsAtTimeout ==
    (cPc = "scan" /\ ~found) ~> (found \/ (cPc = "idle" /\ cErr = ErrNotFound))

\* C6: Connect reports a failed connection attempt only after it has made the
\* configured number of further attempts.
C6_RetriesBeforeFailure ==
    (cPc = "idle" /\ cErr = ErrConnectFailed) => dialAttempts >= ConnectRetries

\* C7: every live connection is the one the printer references.
C7_OneLiveConnection == liveConns \subseteq {device}

\* C8: over a transport that lets the acknowledgment of frame k time out on
\* every attempt, sendBitmap writes frame k FrameRetries times (counting the
\* first attempt or not), writes no later frame and no trigger, and returns
\* RetryExhausted.
C8_RetryExhausted ==
    (/\ uPc = "returned"
     /\ uIn.op = "sendBitmap"
     /\ uIn.ackFail >= 1
     /\ uIn.ackFail <= NumFrames(Len(uIn.arg)))
    => /\ AttemptsOf(uOut.writes, uIn.ackFail) \in {FrameRetries, FrameRetries + 1}
       /\ \A i \in 1 .. Len(uOut.writes) :
             uOut.writes[i].kind = "data" /\ uOut.writes[i].seq <= uIn.ackFail
       /\ uOut.err = ErrRetryExhausted

\* C9: over a transport that acknowledges every frame, sendBitmap writes
\* ceil(n / MaxPacketSize) data frames with payloads of at most MaxPacketSize
\* bytes that join to the bitmap, numbered increasingly, and it returns nil
\* only if it wrote them all.
C9_FramesCoverBitmap ==
    (uPc = "returned" /\ uIn.op = "sendBitmap" /\ uIn.ackFail = 0)
    => LET frames == DataFrames(uOut.writes)
       IN  /\ Len(frames) = NumFrames(Len(uIn.arg))
           /\ \A i \in 1 .. Len(frames) : Len(frames[i].payload) <= MaxPacketSize
           /\ \A i \in 1 .. Len(frames) - 1 : frames[i].seq < frames[i + 1].seq
           /\ Payloads(frames) = uIn.arg

\* C10: textToBitmap succeeds for every text, and the bitmap is a positive
\* whole number of rows of PrintWidthPx / 8 bytes.
C10_RenderRows ==
    (uPc = "returned" /\ uIn.op = "textToBitmap")
    => /\ uOut.err = NoErr
       /\ Len(uOut.bitmap) >= BytesPerRow
       /\ Len(uOut.bitmap) % BytesPerRow = 0

\* The status a device answers when it is ready to receive print data.
ReadyPattern == <<0>>

\* C11: a Connect whose handshake got a response other than the ready pattern
\* returns the handshake failure and does not leave a device to print on.
C11_UnexpectedResponseFails ==
    (cPc = "idle" /\ hsResp # <<>> /\ hsResp # ReadyPattern)
    => (cErr = ErrHandshake /\ device = Nil)

\* C12: PrintText("") returns "text cannot be empty" and PrintJSON(nil)
\* returns "data cannot be nil", and neither hands anything to the printer.
C12_EmptyInputRejected ==
    /\ (rq.op = "PrintText" /\ rq.text = "")
       => (rq.err = ErrEmptyText /\ Len(prLog) = rq.before)
    /\ (rq.op = "PrintJSON" /\ rq.data = JNil)
       => (rq.err = ErrNilData /\ Len(prLog) = rq.before)

\* PrintText("") was called on a service whose printer had printed before.
C12_Witness == rq.op = "PrintText" /\ rq.text = "" /\ rq.before > 0

\* C13: PrintText of a non-empty text hands exactly that text to the printer,
\* once, and returns what the printer returned.
C13_TextPassedThrough ==
    (rq.op = "PrintText" /\ rq.text # "")
    => /\ Len(prLog) = rq.before + 1
       /\ prLog[Len(prLog)] = rq.text
       /\ rq.err = rq.prRet

\* PrintText of a non-empty text on a printer that fails.
C13_Witness == rq.op = "PrintText" /\ rq.text # "" /\ rq.prRet # NoErr

\* JSON as the claim words it: every member of an object on a line of its
\* own, two spaces deeper than the object's braces, keys in sorted order.
RECURSIVE Pad(_)
Pad(level) == IF level = 0 THEN "" ELSE "  " \o Pad(level - 1)

RECURSIVE Pretty(_, _), PrettyMembers(_, _, _)
Pretty(v, level) ==
    CASE v.t = "num" -> ToString(v.n)
      [] v.t = "str" -> "\"" \o v.s \o "\""
      [] v.t = "map" ->
           IF DOMAIN v.m = {} THEN "{}"
           ELSE "{\n" \o PrettyMembers(v.m, SortedKeys(v.m), level + 1)
                    \o "\n" \o Pad(level) \o "}"

PrettyMembers(m, ks, level) ==
    Pad(level) \o "\"" \o Head(ks) \o "\": " \o Pretty(m[Head(ks)], level)
        \o (IF Len(ks) > 1 THEN ",\n" \o PrettyMembers(m, Tail(ks), level)
            ELSE "")

\* C14: PrintJSON of a value that is not nil and can be encoded hands the
\* printer one text, the value as JSON indented by two spaces a level, and
\* returns what the printer returned.
C14_IndentedJsonPrinted ==
    (rq.op = "PrintJSON" /\ rq.data # JNil /\ ~Unsupported(rq.data))
    => /\ Len(prLog) = rq.before + 1
       /\ prLog[Len(prLog)] = Pretty(rq.data, 0)
       /\ rq.err = rq.prRet

\* PrintJSON of an object that holds an object with two members.
C14_Witness ==
    /\ rq.op = "PrintJSON"
    /\ rq.data.t = "map"
    /\ \E k \in DOMAIN rq.data.m :
           rq.data.m[k].t = "map" /\ Cardinality(DOMAIN rq.data.m[k].m) = 2

\* The request of the last call carries a data object with a member.
CarriesData == rq.data # JNil /\ DOMAIN rq.data.m # {}

\* The last call was a POST /print whose body was bound and which carries
\* something to print.
Accepted ==
    rq.op = "Print" /\ rq.bind = NoErr /\ (CarriesData \/ rq.text # "")

\* C15: an accepted POST /print hands the printer one text: the JSON rendering
\* of data when data has a member, whatever text is, and otherwise the text.
C15_DataBeforeText ==
    Accepted
    => /\ Len(prLog) = rq.before + 1
       /\ prLog[Len(prLog)] =
              IF CarriesData THEN Pretty(rq.data, 0) ELSE rq.text

\* A request with both a text and a data object was printed.
C15_Witness == Accepted /\ CarriesData /\ rq.text # "" /\ rq.code = StatusOK

C17_ResponseFollowsPrinter ==
    Accepted
    => /\ (rq.code = StatusOK /\ rq.success) <=> (rq.prRet = NoErr)
       /\ rq.prRet # NoErr
          => /\ rq.code = StatusInternalServerError
             /\ rq.msg = "Print failed: " \o rq.prRet

\* A data request was accepted while the printer was failing.
C17_Witness == Accepted /\ CarriesData /\ rq.prRet # NoErr

\* C19: whatever the printer returns at the time, a GET /health is answered
\* 200 "healthy", and it leaves the printer, what the printer was handed, and
\* the adapter as they are.
C19_HealthAlwaysHealthy ==
    [][(rq' # rq /\ rq'.op = "HealthCheck")
       => /\ rq'.code = StatusOK
          /\ rq'.msg = "healthy"
          /\ UNCHANGED <<prErr, prLog, bleVars, ptVars, mockVars>>]_vars

\* GET /health was answered while the printer was failing.
C19_Witness == rq.op = "HealthCheck" /\ rq.prRet # NoErr /\ prErr # NoErr

\* The lines thread c wrote, in the order it wrote them.
LinesOf(c) == SelectSeq(mkOut, LAMBDA e : e.who = c)

\* C18: every MockPrinter.PrintText call returns nil, and it has written the
\* begin marker, then its text, then the end marker, and nothing else.
C18_MockPrintsBetweenMarkers ==
    \A c \in Callers :
        (mkPc[c] = "idle" /\ LinesOf(c) # <<>>)
        => LET mine == LinesOf(c)
               n == Len(mine)
           IN  /\ mkRet[c] = NoErr
               /\ n % 3 = 0
               /\ mine[n - 2].line = "=== MOCK PRINTER OUTPUT ==="
               /\ mine[n - 1].line = mkText[c]
               /\ mine[n].line = "=== END MOCK PRINTER OUTPUT ==="

\* A call with the empty text returned while another thread was inside its
\* own call.
C18_Witness ==
    \E c, o \in Callers :
        /\ mkPc[c] = "idle" /\ mkText[c] = "" /\ LinesOf(c) # <<>>
        /\ mkPc[o] # "idle"

\* The printer type is "mock" or "ble", and a "ble" printer has a device name.
Acceptable(c) ==
    /\ c.Printer.Type \in {"mock", "ble"}
    /\ c.Printer.Type = "ble" => c.Printer.DeviceName # ""

\* C20: Validate returns nil exactly for the acceptable configurations; Load
\* returns a configuration only with a nil error and only an acceptable one;
\* and with no variable set Load yields type "mock", device name "Peripage"
\* and port "8080".
C20_ValidateAndLoad ==
    /\ cfgCall.op = "Validate"
       => (cfgCall.err = NoErr <=> Acceptable(cfgCall.config))
    /\ (cfgCall.op = "Load" /\ cfgCall.config # NilConfig)
       => (cfgCall.err = NoErr /\ Acceptable(cfgCall.config))
    /\ (cfgCall.op = "Load" /\ \A k \in DOMAIN cfgCall.env : cfgCall.env[k] = Unset)
       => /\ cfgCall.config # NilConfig
          /\ cfgCall.config.Printer.Type = "mock"
          /\ cfgCall.config.Printer.DeviceName = "Peripage"
          /\ cfgCall.config.Server.Port = "8080"

\* Validate was called on a "ble" configuration without a device name.
C20_Witness ==
    /\ cfgCall.op = "Validate"
    /\ cfgCall.config.Printer.Type = "ble"
    /\ cfgCall.config.Printer.DeviceName = ""
    /\ cfgCall.err # NoErr

\* C22: a PrintText that got past the connection check ran textToBitmap; it
\* ran sendBitmap only after a conversion that succeeded; it returns nil only
\* if both returned nil; and the error it returns names the step that failed
\* and wraps that step's error.
C22_ConvertThenSend ==
    \A c \in Callers :
        (ptPc[c] = "done" /\ ptRendered[c])
        => /\ ptSteps[c].conv # "not run"
           /\ ptSteps[c].conv # NoErr => ptSteps[c].send = "not run"
           /\ ptErr[c] = NoErr => (ptSteps[c].conv = NoErr /\ ptSteps[c].send = NoErr)
           /\ ptSteps[c].conv # NoErr
              => (ptErr[c] = ErrConvert /\ ptSteps[c].cause = ptSteps[c].conv)
           /\ ptSteps[c].send \notin {NoErr, "not run"}
              => (ptErr[c] = ErrSend /\ ptSteps[c].cause = ptSteps[c].send)

\* A PrintText on a connected printer returned after its conversion failed.
C22_Witness ==
    \E c \in Callers :
        /\ ptPc[c] = "done" /\ ptRendered[c] /\ device # Nil
        /\ ptSteps[c].conv = ErrRenderNotImpl /\ ptErr[c] = ErrConvert

\* The address received with the strongest signal among S.
Strongest(S) == CHOOSE a \in S : \A b \in S : RSSI(a) >= RSSI(b)

\* C23: a scan that reported more than one matching advertisement leads to
\* Connect opening the connection to the strongest of the devices reported.
C23_StrongestWins ==
    (cPc \in {"scan", "cbBlocked"} /\ found /\ seen # {foundDevice})
    ~> (cPc = "dial" /\ foundDevice = Strongest(seen))

\* C24: no run of the scan callback waits on a full deviceCh, however many
\* matching advertisements the scan delivers.
C24_CallbackNeverBlocks == cPc # "cbBlocked"

\* C25: whenever Connect calls adapter.Connect, the address it passes is the
\* one of a result that this call's scan reported under the configured name,
\* never the zero result.
C25_DialsReportedMatch ==
    [][(cPc = "dial" /\ cPc' # "dial")
       => /\ foundDevice # ZeroResult
          /\ foundDevice \in seen
          /\ foundDevice \in Addresses /\ LocalName(foundDevice) = deviceName]_vars

\* The select took the timeout case while the result was still in deviceCh,
\* and the connection was opened.
C25_Witness == cPc = "handshake" /\ scanCtxDone /\ deviceCh # <<>>

\* C26: Connect returns nil only from its handshake step, with the connection
\* it opened stored in b.device; and a Connect that returns one of its errors
\* of before the connection leaves b.device as it was.
C26_ConnectResult ==
    [][/\ (cPc # "idle" /\ cPc' = "idle" /\ cErr' = NoErr)
          => /\ cPc = "handshake"
             /\ dialAttempts > 0
             /\ device' # Nil
             /\ device' = nextConn - 1
       /\ (cPc' = "idle" /\ cErr' \in {ErrStartScan, ErrNotFound, ErrConnectFailed})
          => device' = device]_vars

\* A Connect on a printer that held a device failed to open the connection.
C26_Witness == cPc = "idle" /\ cErr = ErrConnectFailed /\ device # Nil

\* C27: a Disconnect without a device returns nil and changes nothing; one
\* that returns nil leaves no device; one that returns an error leaves the
\* device it had; and a PrintText called while there is no device returns
\* "not connected to printer".
C27_DisconnectResult ==
    [][/\ Disconnect
          => /\ device = Nil
                => (cErr' = NoErr /\ device' = Nil /\ liveConns' = liveConns)
             /\ cErr' = NoErr => device' = Nil
             /\ cErr' # NoErr => (device # Nil /\ device' = device)
       /\ \A c \in Callers :
              (device = Nil /\ ptPc[c] = "idle" /\ ptPc'[c] # "idle")
              => (ptPc'[c] = "done" /\ ptErr'[c] = "not connected to printer")]_vars

\* After a connection was opened and closed again by Disconnect, a PrintText
\* was refused.
C27_Witness ==
    /\ device = Nil /\ nextConn > 1 /\ cPc = "idle" /\ cErr = NoErr
    /\ \E c \in Callers : ptPc[c] = "done" /\ ptErr[c] = ErrNotConnected

\* C28: in the output of concurrent MockPrinter.PrintText calls, every line
\* that is not an end marker is followed by a line of the same call.
C28_BlocksContiguous ==
    \A i \in 1 .. Len(mkOut) - 1 :
        mkOut[i].line # "=== END MOCK PRINTER OUTPUT ==="
        => mkOut[i + 1].who = mkOut[i].who

\* The environment with every variable that is set to "" removed.
WithoutEmpty(env) == [k \in DOMAIN env |-> IF env[k] = "" THEN Unset ELSE env[k]]

\* C30: Load returns in an environment what it returns in the one where the
\* variables set to "" are unset; a "ble" configuration it returns has a
\* device name; and it never returns the device-name error.
C30_EmptyIsUnset ==
    cfgCall.op = "Load"
    => /\ cfgCall.config = Load(WithoutEmpty(cfgCall.env)).config
       /\ cfgCall.err = Load(WithoutEmpty(cfgCall.env)).err
       /\ (cfgCall.config # NilConfig /\ cfgCall.config.Printer.Type = "ble")
          => cfgCall.config.Printer.DeviceName # ""
       /\ cfgCall.err # "device name is required for BLE printer"

\* Load ran with PRINTER_TYPE=ble and PRINTER_DEVICE_NAME set to "".
C30_Witness ==
    /\ cfgCall.op = "Load"
    /\ cfgCall.env.PRINTER_TYPE = "ble"
    /\ cfgCall.env.PRINTER_DEVICE_NAME = ""
    /\ cfgCall.config # NilConfig
    /\ cfgCall.config.Printer.DeviceName = "Peripage"

\* The process did e.
Did(e) == \E i \in 1 .. Len(mTrace) : mTrace[i] = e

\* The process did e before the i-th entry of its trace.
DidBefore(e, i) == \E j \in 1 .. i - 1 : mTrace[j] = e

\* C21: a process that exits after its Connect succeeded has called
\* Disconnect.
C21_DisconnectBeforeExit == (mPc = "exited" /\ Did("Connect")) => Did("Disconnect")

\* C29: in ble mode the server listens and serves only after NewBLEPrinter
\* and Connect succeeded; a process in which either failed has exited without
\* listening; and a process in mock mode makes no call to the BLE printer.
C29_ServeAfterConnect ==
    /\ \A i \in 1 .. Len(mTrace) :
           (mTrace[i] \in {"Listen", "Request"} /\ mCfg.Printer.Type = "ble")
           => (DidBefore("NewBLEPrinter", i) /\ DidBefore("Connect", i))
    /\ (Did("NewBLEPrinter failed") \/ Did("Connect failed"))
       => (mPc = "exited" /\ ~Did("Listen") /\ ~Did("Request"))
    /\ (Did("Load") /\ mCfg.Printer.Type = "mock")
       => \A e \in {"NewBLEPrinter", "NewBLEPrinter failed", "Connect",
                     "Connect failed", "Disconnect"} : ~Did(e)

\* A request was served in ble mode.
C29_Witness == Did("Request") /\ mCfg.Printer.Type = "ble"

====
